---- MODULE Spec2Model ----
(***************************************************************************)
(* Model of the generator based context manager of util.py:                *)
(* _GeneratorSimpleContextManager (__exit__ overridden, __enter__          *)
(* inherited from contextlib._GeneratorContextManager), the decorator      *)
(* simplecontextmanager, and the `with` statement that drives them.        *)
(*                                                                         *)
(* A generator function (the Procedure) is a sequence of segments, one per *)
(* resume; every segment ends in a yield, a return or a raise.             *)
(***************************************************************************)
EXTENDS Integers, Sequences, FiniteSets, TLC

\* ---------------------------------------------------------------- bounds
NumFailures == 3
MaxYields == 2
MaxValue == 2
MaxCalls == 3

\* ------------------------------------------------------------ exceptions
\* An exception object: its class (kind), its identity (id) and its args.
FailureData(i) == IF i % 2 = 0 THEN "with" ELSE "check"

Exc(i) == [kind |-> "Exception", id |-> i, args |-> FailureData(i)]

\* The Exception instances user code (the block, the generator) can raise.
\* Exc(1) and Exc(3) carry the same args and differ in identity.
Failures == {Exc(i) : i \in 1..NumFailures}

\* No exception (Python's None in the position of an exception).
NoExc == [kind |-> "None", id |-> 0, args |-> ""]

\* RuntimeError("generator didn't stop"), raised by __exit__.
DidntStop == [kind |-> "RuntimeError", id |-> 0, args |-> "generator didn't stop"]

\* RuntimeError("generator didn't yield"), raised by the inherited __enter__.
DidntYield == [kind |-> "RuntimeError", id |-> 0, args |-> "generator didn't yield"]

\* `value = type()`: a new instance, identical to no exception seen before.
NewInstance == [kind |-> "Exception", id |-> 0, args |-> ""]

\* StopIteration as raised by next() on a generator that returned.
StopIteration == [kind |-> "StopIteration", id |-> 0, args |-> ""]

\* `a is b` on exception objects.
Is(a, b) == a.kind = b.kind /\ a.id = b.id

\* ------------------------------------------------------------ generators
Values == 1..MaxValue

YieldSeg(v) == [op |-> "yield", val |-> v, exc |-> NoExc]
ReturnSeg == [op |-> "return", val |-> 0, exc |-> NoExc]
RaiseSeg(e) == [op |-> "raise", val |-> 0, exc |-> e]

Terminals == {ReturnSeg} \cup {RaiseSeg(e) : e \in Failures}

YieldPrefixes == UNION {[1..n -> {YieldSeg(v) : v \in Values}] : n \in 0..MaxYields}

\* Every generator function: some yields, then a return or a raise.
Procedures == {Append(p, t) : p \in YieldPrefixes, t \in Terminals}

\* A well-formed Procedure suspends exactly once.
WellFormed(p) == Len(p) = 2 /\ p[1].op = "yield"

\* A generator object right after the generator function was called.
NewGen == [pc |-> 0, state |-> "created"]

\* next(gen): run the next segment of p.  A generator that has finished
\* raises StopIteration without running any code.
GenNext(p, g) ==
    IF g.state = "closed"
    THEN [gen |-> g, ran |-> 0, kind |-> "stop", val |-> 0, exc |-> StopIteration]
    ELSE LET seg == p[g.pc + 1] IN
         IF seg.op = "yield"
         THEN [gen |-> [pc |-> g.pc + 1, state |-> "suspended"], ran |-> 1,
               kind |-> "yield", val |-> seg.val, exc |-> NoExc]
         ELSE IF seg.op = "return"
         THEN [gen |-> [pc |-> g.pc + 1, state |-> "closed"], ran |-> 1,
               kind |-> "stop", val |-> 0, exc |-> StopIteration]
         ELSE [gen |-> [pc |-> g.pc + 1, state |-> "closed"], ran |-> 1,
               kind |-> "raise", val |-> 0, exc |-> seg.exc]

\* ------------------------------------------------------- results of calls
Returns(r, v) == [kind |-> "return", ret |-> r, val |-> v, exc |-> NoExc]
Raises(e) == [kind |-> "raise", ret |-> "", val |-> 0, exc |-> e]

\* As EnterResult, with `except Exception` in place of
\* `except StopIteration`.
EnterResultCatchAll(n) ==
    IF n.kind = "yield" THEN Returns("value", n.val)
    ELSE Raises(DidntYield)

\* __enter__ as inherited from contextlib._GeneratorContextManager:
\*     try: return next(self.gen)
\*     except StopIteration: raise RuntimeError("generator didn't yield")
EnterResult(n) ==
    IF n.kind = "yield" THEN Returns("value", n.val)
    ELSE IF n.kind = "stop" THEN Raises(DidntYield)
    ELSE Raises(n.exc)

\* As ExitNoneResult, without the `else: raise RuntimeError(...)`.
ExitNoneResultNoElse(n) ==
    IF n.kind = "stop" THEN Returns("None", 0)
    ELSE IF n.kind = "yield" THEN Returns("None", 0)
    ELSE Raises(n.exc)

\* As ExitNoneResult, with `except Exception` in place of
\* `except StopIteration`.
ExitNoneResultCatchAll(n) ==
    IF n.kind = "stop" THEN Returns("None", 0)
    ELSE IF n.kind = "yield" THEN Raises(DidntStop)
    ELSE Returns("None", 0)

\* __exit__, branch `type is None`.
ExitNoneResult(n) ==
    IF n.kind = "stop" THEN Returns("None", 0)
    ELSE IF n.kind = "yield" THEN Raises(DidntStop)
    ELSE Raises(n.exc)

\* __exit__, branch `type is not None`, the try/except/else part:
\* what the statement would deliver were there no finally clause.
ExitTryResult(n, value) ==
    IF n.kind = "stop"
    THEN Returns(IF ~Is(n.exc, value) THEN "True" ELSE "False", 0)
    ELSE IF n.kind = "yield" THEN Raises(DidntStop)
    ELSE Raises(n.exc)

\* As ExitFinally, the finally clause left out.
ExitFinallyMissing(r) == r

\* As ExitFinally, `finally: return True`.
ExitFinallyTrue(r) == Returns("True", 0)

\* `finally: return False` replaces whatever the try part delivered,
\* a pending exception included.
ExitFinally(r) == Returns("False", 0)

\* __exit__(type, value, traceback); type is None iff hasType is FALSE.
\* value may be None (NoExc) with a type given: it is then instantiated.
ExitResult(n, hasType, value) ==
    IF ~hasType
    THEN ExitNoneResult(n)
    ELSE LET v == IF value = NoExc THEN NewInstance ELSE value
         IN ExitFinally(ExitTryResult(n, v))

\* As ExitResume, the failure branch not resuming the generator.
ExitResumeOnlyOnSuccess(p, g, hasType) ==
    IF hasType
    THEN [gen |-> g, ran |-> 0, kind |-> "stop", val |-> 0, exc |-> StopIteration]
    ELSE GenNext(p, g)

\* As ExitResume, the `type is None` branch not resuming the generator.
ExitResumeOnlyOnFailure(p, g, hasType) ==
    IF hasType
    THEN GenNext(p, g)
    ELSE [gen |-> g, ran |-> 0, kind |-> "stop", val |-> 0, exc |-> StopIteration]

\* As ExitResume, resuming the generator until it has finished (a loop
\* around next(self.gen)).
ExitResumeDrain(p, g, hasType) ==
    IF g.state = "closed"
    THEN GenNext(p, g)
    ELSE LET last == p[Len(p)] IN
         [gen |-> [pc |-> Len(p), state |-> "closed"], ran |-> Len(p) - g.pc,
          kind |-> IF last.op = "raise" THEN "raise" ELSE "stop", val |-> 0,
          exc |-> IF last.op = "raise" THEN last.exc ELSE StopIteration]

\* Both branches of __exit__ resume the generator with next(self.gen).
ExitResume(p, g, hasType) == GenNext(p, g)

\* ------------------------------------------------------------------ state
VARIABLES
    proc,      \* the generator function wrapped by @simplecontextmanager
    gen,       \* self.gen
    resumes,   \* number of segments of proc that have been run
    usage,     \* "with": the with statement; "direct": __enter__/__exit__ calls
    log,       \* the calls made on the context manager, with their results
    wpc,       \* position of the with statement
    block,     \* how the with block ended
    outcome,   \* what the with statement delivered to its caller
    os,        \* the process state chdir, umask, update_env and tempdir guard
    os0,       \* the process state before the outermost context was entered
    stack,     \* the open contexts of the guards, innermost last
    pending,   \* the exception in flight through the open contexts
    raised,    \* the exception user code raised and the caller has not caught
    opens      \* number of contexts entered so far

\* The variables of the guards built on the context manager.
gvars == <<os, os0, stack, pending, raised, opens>>

vars == <<proc, gen, resumes, usage, log, wpc, block, outcome,
          os, os0, stack, pending, raised, opens>>

\* How a block can end: normally, by an early return, or raising F.
BlockNormal == [kind |-> "normal", exc |-> NoExc]
BlockReturn == [kind |-> "return", exc |-> NoExc]
BlockRaise(e) == [kind |-> "raise", exc |-> e]
BlockNone == [kind |-> "none", exc |-> NoExc]

OutNone == [kind |-> "none", exc |-> NoExc]
OutNormal == [kind |-> "normal", exc |-> NoExc]
OutRaise(e) == [kind |-> "raise", exc |-> e]

\* ----------------------------------------------------- the guarded state
FixedDirs == {"/", "/a"}
TmpDirs == {"/tmp/x", "/tmp/y", "/tmp/z"}
Masks == {18, 63}
Keys == {"A", "B"}
EnvVals == {"x", "y"}

\* os.environ: every key has a value or is absent ("None", what
\* os.environ.get(key) returns for it).
Environs == [Keys -> EnvVals \cup {"None"}]

\* The dict passed to update_env; "-" marks a key the dict does not hold.
EnvArgs == [Keys -> EnvVals \cup {"-"}]

NoEnv == [k \in Keys |-> "-"]

\* The process state before any context is entered: no temp dir exists.
OsStates ==
    [cwd : FixedDirs, umask : Masks, environ : Environs, dirs : {FixedDirs}]

\* The state of the adapter as the generator object shows it.
AdapterState(g) ==
    IF g.state = "created" THEN "Fresh"
    ELSE IF g.state = "closed" THEN "Closed"
    ELSE IF g.pc = 1 THEN "Active"
    ELSE "Broken"

Call(op, hasType, value, pre, n, res) ==
    [op |-> op, hasType |-> hasType, value |-> value, pre |-> pre,
     post |-> AdapterState(n.gen), ran |-> n.ran, res |-> res]

\* helper(*args, **kwds): a new context manager around a new generator.
Init ==
    /\ proc \in Procedures
    /\ usage \in {"with", "direct"}
    /\ gen = NewGen
    /\ resumes = 0
    /\ log = <<>>
    /\ wpc = "start"
    /\ block = BlockNone
    /\ outcome = OutNone
    /\ os = [cwd |-> "/", umask |-> 18, environ |-> [k \in Keys |-> "None"],
             dirs |-> FixedDirs]
    /\ os0 = os
    /\ stack = <<>>
    /\ pending = NoExc
    /\ raised = NoExc
    /\ opens = 0

\* ---------------------------------------------------------- direct calls
\* mgr.__enter__()
Enter ==
    /\ usage = "direct"
    /\ Len(log) < MaxCalls
    /\ LET n == GenNext(proc, gen) IN
        /\ gen' = n.gen
        /\ resumes' = resumes + n.ran
        /\ log' = Append(log, Call("enter", FALSE, NoExc, AdapterState(gen), n, EnterResult(n)))
    /\ UNCHANGED <<proc, usage, wpc, block, outcome>>
    /\ UNCHANGED gvars

\* mgr.__exit__(type, value, traceback)
DoExit(hasType, value) ==
    LET n == ExitResume(proc, gen, hasType) IN
        /\ gen' = n.gen
        /\ resumes' = resumes + n.ran
        /\ log' = Append(log, Call("exit", hasType, value, AdapterState(gen), n,
                                   ExitResult(n, hasType, value)))

\* mgr.__exit__(None, None, None)
ExitNone ==
    /\ usage = "direct"
    /\ Len(log) < MaxCalls
    /\ DoExit(FALSE, NoExc)
    /\ UNCHANGED <<proc, usage, wpc, block, outcome>>
    /\ UNCHANGED gvars

\* mgr.__exit__(type(F), F, tb), and mgr.__exit__(type, None, tb)
ExitFailure ==
    /\ usage = "direct"
    /\ Len(log) < MaxCalls
    /\ \E value \in Failures \cup {NoExc} : DoExit(TRUE, value)
    /\ UNCHANGED <<proc, usage, wpc, block, outcome>>
    /\ UNCHANGED gvars

\* ------------------------------------------------------ the with statement
\* `with some_generator(...) as x:` calls __enter__; if that raises, the
\* block is not run and __exit__ is not called.
WithEnter ==
    /\ usage = "with"
    /\ wpc = "start"
    /\ LET n == GenNext(proc, gen)
           r == EnterResult(n) IN
        /\ gen' = n.gen
        /\ resumes' = resumes + n.ran
        /\ log' = Append(log, Call("enter", FALSE, NoExc, AdapterState(gen), n, r))
        /\ IF r.kind = "return"
           THEN wpc' = "block" /\ outcome' = outcome
           ELSE wpc' = "done" /\ outcome' = OutRaise(r.exc)
    /\ UNCHANGED <<proc, usage, block>>
    /\ UNCHANGED gvars

\* The block runs and ends normally, by an early return, or raising F.
WithBlock ==
    /\ usage = "with"
    /\ wpc = "block"
    /\ block' \in {BlockNormal, BlockReturn} \cup {BlockRaise(e) : e \in Failures}
    /\ wpc' = "exit"
    /\ UNCHANGED <<proc, gen, resumes, usage, log, outcome>>
    /\ UNCHANGED gvars

\* What the with statement delivers, given how the block ended and what
\* __exit__ did: an exception out of __exit__ propagates; after a failing
\* block a true result suppresses F and a false one re-raises F.
WithOutcome(b, r) ==
    IF r.kind = "raise" THEN OutRaise(r.exc)
    ELSE IF b.kind = "raise" /\ r.ret # "True" THEN OutRaise(b.exc)
    ELSE OutNormal

\* Leaving the block calls __exit__ once, on every exit path.
WithExit ==
    /\ usage = "with"
    /\ wpc = "exit"
    /\ LET hasType == block.kind = "raise"
           n == ExitResume(proc, gen, hasType)
           r == ExitResult(n, hasType, block.exc) IN
        /\ gen' = n.gen
        /\ resumes' = resumes + n.ran
        /\ log' = Append(log, Call("exit", hasType, block.exc, AdapterState(gen), n, r))
        /\ outcome' = WithOutcome(block, r)
    /\ wpc' = "done"
    /\ UNCHANGED <<proc, usage, block>>
    /\ UNCHANGED gvars

Next ==
    \/ Enter
    \/ ExitNone
    \/ ExitFailure
    \/ WithEnter
    \/ WithBlock
    \/ WithExit

Spec == Init /\ [][Next]_vars

\* --------------------------------- chdir, umask, update_env and tempdir
\* Bounds on the nesting depth and on the number of contexts entered.
MaxDepth == 2
MaxOpens == 3

\* OSError / KeyError raised by a failing os call.
OSError == [kind |-> "OSError", id |-> 0, args |-> ""]

\* A guard with its argument: chdir(path), umask(new_mask),
\* update_env(env), tempdir().
Guards ==
    [kind : {"chdir"}, path : FixedDirs \cup TmpDirs, mask : {0}, env : {NoEnv}]
    \cup [kind : {"umask"}, path : {""}, mask : Masks, env : {NoEnv}]
    \cup [kind : {"update_env"}, path : {""}, mask : {0}, env : EnvArgs]
    \cup [kind : {"tempdir"}, path : TmpDirs, mask : {0}, env : {NoEnv}]

\* The local variables of a guard's generator before its setup has run.
NoLocals == [cwd |-> "", cur_mask |-> 0, old_env |-> NoEnv, tmpdir |-> ""]

\* Whether the setup code of guard g raises in process state o:
\* os.chdir(path) of a directory that does not exist.  tempfile.mkdtemp()
\* returns a name that did not exist (path stands for the name it picks).
SetupFails(g, o) ==
    \/ g.kind = "chdir" /\ g.path \notin o.dirs

\* The local variables the setup code of g assigns.
SetupLocals(g, o) ==
    IF g.kind = "chdir" THEN [NoLocals EXCEPT !.cwd = o.cwd]
    ELSE IF g.kind = "umask" THEN [NoLocals EXCEPT !.cur_mask = o.umask]
    ELSE IF g.kind = "update_env"
    THEN [NoLocals EXCEPT !.old_env =
            [k \in Keys |-> IF g.env[k] = "-" THEN "-" ELSE o.environ[k]]]
    ELSE [NoLocals EXCEPT !.tmpdir = g.path]

\* The process state the setup code of g leaves.
SetupEffect(g, o) ==
    IF g.kind = "chdir" THEN [o EXCEPT !.cwd = g.path]
    ELSE IF g.kind = "umask" THEN [o EXCEPT !.umask = g.mask]
    ELSE IF g.kind = "update_env"
    THEN [o EXCEPT !.environ =
            [k \in Keys |-> IF g.env[k] = "-" THEN o.environ[k] ELSE g.env[k]]]
    ELSE [o EXCEPT !.dirs = o.dirs \cup {g.path}]

\* Whether the cleanup code of a guard raises in process state o:
\* os.chdir(cwd) or shutil.rmtree(tmpdir) of a directory that does not
\* exist, del os.environ[key] of a key that is absent.
CleanupFails(kind, l, o) ==
    \/ kind = "chdir" /\ l.cwd \notin o.dirs
    \/ kind = "tempdir" /\ l.tmpdir \notin o.dirs
    \/ kind = "update_env" /\ \E k \in Keys : l.old_env[k] = "None" /\ o.environ[k] = "None"

\* The process state the cleanup code of a guard leaves.
CleanupEffect(kind, l, o) ==
    IF kind = "chdir" THEN [o EXCEPT !.cwd = l.cwd]
    ELSE IF kind = "umask" THEN [o EXCEPT !.umask = l.cur_mask]
    ELSE IF kind = "update_env"
    THEN [o EXCEPT !.environ =
            [k \in Keys |-> IF l.old_env[k] = "-" THEN o.environ[k] ELSE l.old_env[k]]]
    ELSE [o EXCEPT !.dirs = o.dirs \ {l.tmpdir}]

\* The generator of a guard as a Procedure: setup, one yield, cleanup.
GuardProc(setupFails, cleanupFails) ==
    IF setupFails THEN <<RaiseSeg(OSError)>>
    ELSE <<YieldSeg(1), IF cleanupFails THEN RaiseSeg(OSError) ELSE ReturnSeg>>

InitGuards ==
    /\ proc = GuardProc(FALSE, FALSE)
    /\ usage = "guards"
    /\ gen = NewGen
    /\ resumes = 0
    /\ log = <<>>
    /\ wpc = "start"
    /\ block = BlockNone
    /\ outcome = OutNone
    /\ os \in OsStates
    /\ os0 = os
    /\ stack = <<>>
    /\ pending = NoExc
    /\ raised = NoExc
    /\ opens = 0

avars == <<proc, gen, resumes, usage, log, wpc, block, outcome>>

\* `with chdir(path):`, `with umask(m):`, `with update_env(env):`,
\* `with tempdir() as t:` entered by the code running in the innermost
\* open block: __enter__ runs the setup code of the guard.
GuardEnter ==
    /\ usage = "guards"
    /\ pending = NoExc
    /\ Len(stack) < MaxDepth
    /\ opens < MaxOpens
    /\ \E g \in Guards :
        /\ g.kind = "tempdir" => g.path \notin os.dirs
        /\ LET p == GuardProc(SetupFails(g, os), FALSE)
               n == GenNext(p, NewGen)
               r == EnterResult(n) IN
            IF r.kind = "return"
            THEN /\ os' = SetupEffect(g, os)
                 /\ stack' = Append(stack, [kind |-> g.kind, gen |-> n.gen,
                                            locals |-> SetupLocals(g, os),
                                            inside |-> SetupEffect(g, os)])
                 /\ UNCHANGED <<pending, raised>>
            ELSE /\ pending' = r.exc
                 /\ raised' = r.exc
                 /\ UNCHANGED <<os, stack>>
    /\ opens' = opens + 1
    /\ UNCHANGED avars
    /\ UNCHANGED os0

\* The code of the innermost open block raises F.
GuardRaise ==
    /\ usage = "guards"
    /\ pending = NoExc
    /\ Len(stack) > 0
    /\ \E e \in Failures : pending' = e /\ raised' = e
    /\ UNCHANGED avars
    /\ UNCHANGED <<os, os0, stack, opens>>

\* The innermost open block is left, normally or with the exception in
\* flight: __exit__ resumes the generator, which runs the cleanup code of
\* the guard, and the with statement delivers its outcome to the
\* enclosing block.
GuardExit ==
    /\ usage = "guards"
    /\ Len(stack) > 0
    /\ LET top == stack[Len(stack)]
           hasType == pending # NoExc
           p == GuardProc(FALSE, CleanupFails(top.kind, top.locals, os))
           n == ExitResume(p, top.gen, hasType)
           r == ExitResult(n, hasType, pending)
           b == IF hasType THEN BlockRaise(pending) ELSE BlockNormal
           out == WithOutcome(b, r) IN
        /\ os' = IF n.ran = 1 /\ n.kind = "stop"
                 THEN CleanupEffect(top.kind, top.locals, os)
                 ELSE os
        /\ pending' = IF out.kind = "raise" THEN out.exc ELSE NoExc
        /\ raised' = IF out.kind = "raise" /\ ~hasType THEN out.exc ELSE raised
    /\ stack' = SubSeq(stack, 1, Len(stack) - 1)
    /\ UNCHANGED avars
    /\ UNCHANGED <<os0, opens>>

\* The caller of the outermost with statement catches the exception, as
\* the tests do with `except Exception as exc:`.
GuardCatch ==
    /\ usage = "guards"
    /\ stack = <<>>
    /\ pending # NoExc
    /\ pending' = NoExc
    /\ raised' = NoExc
    /\ UNCHANGED avars
    /\ UNCHANGED <<os, os0, stack, opens>>

NextGuards ==
    \/ GuardEnter
    \/ GuardRaise
    \/ GuardExit
    \/ GuardCatch

SpecGuards == InitGuards /\ [][NextGuards]_vars


\* ------------------------------------------------------------- properties
Calls == 1..Len(log)

WithDone == usage = "with" /\ wpc = "done"

\* The second resume of a well-formed Procedure: its cleanup.
Cleanup == proc[2]

\* A call of __exit__ made while the adapter is Active.
ExitInActive(i) == log[i].op = "exit" /\ log[i].pre = "Active"

\* C1: in the with form around a well-formed Procedure, cleanup (the
\* second resume) runs exactly once, after setup, on every exit path of the
\* block: not before the block has been left, and exactly once when the
\* with statement is done, however the block ended.
C1_CleanupExactlyOnce ==
    (usage = "with" /\ WellFormed(proc)) =>
        /\ resumes <= 2
        /\ wpc = "start" => resumes = 0
        /\ wpc \in {"block", "exit"} => resumes = 1
        /\ wpc = "done" =>
            /\ resumes = 2
            /\ Len(log) = 2
            /\ log[1].op = "enter" /\ log[1].ran = 1
            /\ log[2].op = "exit" /\ log[2].ran = 1

C1_Witness ==
    /\ WithDone /\ WellFormed(proc)
    /\ block.kind = "raise"
    /\ resumes = 2

C5_SameFailurePropagates ==
    (/\ WithDone /\ WellFormed(proc) /\ block.kind = "raise"
     /\ Cleanup.op = "raise" /\ Is(Cleanup.exc, block.exc)) =>
        /\ AdapterState(gen) = "Closed"
        /\ outcome.kind = "raise"
        /\ Is(outcome.exc, block.exc)
        /\ outcome.exc = block.exc

C5_Witness ==
    /\ WithDone /\ WellFormed(proc)
    /\ block.kind = "raise"
    /\ Cleanup = RaiseSeg(block.exc)
    /\ log[2].ran = 1

\* C6: in Active, exit(none) on a Procedure that suspends a second time
\* raises RuntimeError("generator didn't stop") and leaves the adapter
\* Broken (parked at the second suspension point).
C6_DoubleYieldRaises ==
    \A i \in Calls :
        (ExitInActive(i) /\ ~log[i].hasType /\ Cleanup.op = "yield") =>
            /\ log[i].res = Raises(DidntStop)
            /\ log[i].res.exc.args = "generator didn't stop"
            /\ log[i].post = "Broken"

C6_Witness ==
    \E i \in Calls :
        /\ ExitInActive(i) /\ ~log[i].hasType
        /\ Cleanup.op = "yield"
        /\ log[i].post = "Broken"

\* The error the specification names for a call made out of sequence.
MisuseError == [kind |-> "MisuseError", id |-> 0, args |-> ""]

\* C7 as claimed: after an exit in which the Procedure suspended a second
\* time, every later enter or exit raises MisuseError, the adapter stays
\* Broken and the Procedure is not resumed again.
C7_Original ==
    \A i, j \in Calls :
        (i < j /\ ExitInActive(i) /\ log[i].post = "Broken") =>
            /\ log[j].res = Raises(MisuseError)
            /\ log[j].post = "Broken"
            /\ log[j].ran = 0

\* C8 as claimed: in Active, exit(F) on a Procedure that suspends a second
\* time leaves the adapter Broken and raises the protocol violation
\* RuntimeError("generator didn't stop"), which supersedes F.
C8_Original ==
    \A i \in Calls :
        (ExitInActive(i) /\ log[i].hasType /\ Cleanup.op = "yield") =>
            /\ log[i].post = "Broken"
            /\ log[i].res = Raises(DidntStop)

C10_ExitNonePropagates ==
    \A i \in Calls :
        (ExitInActive(i) /\ ~log[i].hasType /\ Cleanup.op = "raise") =>
            /\ log[i].res = Raises(Cleanup.exc)
            /\ log[i].post = "Closed"
            /\ log[i].ran = 1
            /\ \A j \in Calls : j > i => (log[j].ran = 0 /\ log[j].post = "Closed")
            /\ resumes = 2

C10_Witness ==
    \E i \in Calls :
        /\ ExitInActive(i) /\ ~log[i].hasType
        /\ Cleanup.op = "raise"
        /\ i < Len(log)
        /\ log[i].res.kind = "raise"

\* C11 as claimed: exit, with or without a failure, on an adapter that is
\* still Fresh raises MisuseError, does not resume the Procedure and
\* leaves the adapter Fresh.
C11_Original ==
    \A i \in Calls :
        (log[i].op = "exit" /\ log[i].pre = "Fresh") =>
            /\ log[i].res = Raises(MisuseError)
            /\ log[i].ran = 0
            /\ log[i].post = "Fresh"

\* C12 as claimed: after a completed enter/exit cycle every further enter,
\* exit(none) or exit(F) raises MisuseError, the adapter stays Closed and
\* no Procedure code runs again.
C12_Original ==
    \A i, j \in Calls :
        (i < j /\ ExitInActive(i) /\ log[i].post = "Closed") =>
            /\ log[j].res = Raises(MisuseError)
            /\ log[j].post = "Closed"
            /\ log[j].ran = 0

\* C13 as claimed: a second enter() on an adapter that is Active raises
\* MisuseError, does not resume the Procedure and leaves the adapter
\* Active.
C13_Original ==
    \A i \in Calls :
        (log[i].op = "enter" /\ log[i].pre = "Active") =>
            /\ log[i].res = Raises(MisuseError)
            /\ log[i].ran = 0
            /\ log[i].post = "Active"

\* The form the docstring of simplecontextmanager gives as the equivalent
\* of the with statement, for a generator `<setup>; yield <value>;
\* <cleanup>` and a body ending as b:
\*     <setup>
\*     try: <variable> = <value>; <body>
\*     finally: <cleanup>
\* An exception raised by the finally clause replaces the one in flight.
TryFinally(p, b) ==
    IF p[1].op # "yield"
    THEN [phases |-> <<"setup">>,
          outcome |-> IF p[1].op = "raise" THEN OutRaise(p[1].exc) ELSE OutNormal]
    ELSE [phases |-> <<"setup", "body", "cleanup">>,
          outcome |-> IF p[2].op = "raise" THEN OutRaise(p[2].exc)
                      ELSE IF b.kind = "raise" THEN OutRaise(b.exc)
                      ELSE OutNormal]

\* The phases the with statement has run, in order.
WithPhases ==
    (IF Len(log) >= 1 /\ log[1].ran = 1 THEN <<"setup">> ELSE <<>>)
    \o (IF block # BlockNone THEN <<"body">> ELSE <<>>)
    \o (IF Len(log) >= 2 /\ log[2].ran = 1 THEN <<"cleanup">> ELSE <<>>)

\* C14 as claimed: for a generator of the documented shape, every body
\* outcome and every cleanup outcome, the with statement runs the same
\* phases in the same order as the try/finally form and delivers the same
\* final outcome to its caller.
C14_Original ==
    (WithDone /\ WellFormed(proc)) =>
        /\ WithPhases = TryFinally(proc, block).phases
        /\ outcome = TryFinally(proc, block).outcome

\* gen.throw(e) on a generator whose yield stands outside any try
\* statement, as in every generator of util.py: the exception surfaces at
\* the suspension point, no further generator code runs and the generator
\* is finished.
GenThrow(p, g, e) ==
    [gen |-> [pc |-> g.pc, state |-> "closed"], ran |-> 0,
     kind |-> "raise", val |-> 0, exc |-> e]

\* The generator an Active adapter holds: parked at its first yield.
ActiveGen == [pc |-> 1, state |-> "suspended"]

C17_SetupFailureRelayed ==
    /\ \A i \in Calls :
        (log[i].op = "enter" /\ log[i].pre = "Fresh" /\ proc[1].op = "raise") =>
            /\ log[i].res = Raises(proc[1].exc)
            /\ log[i].post # "Active"
            /\ log[i].post = "Closed"
    /\ (usage = "with" /\ proc[1].op = "raise" /\ wpc # "start") =>
            /\ wpc = "done"
            /\ outcome = OutRaise(proc[1].exc)
            /\ block = BlockNone
            /\ Len(log) = 1
            /\ resumes = 1

C17_Witness ==
    /\ WithDone
    /\ proc[1] = RaiseSeg(Exc(2))
    /\ outcome = OutRaise(Exc(2))
    /\ Len(log) = 1

\* C18: every enter or exit call resumes the Procedure at most once, so
\* after n calls it has been resumed at most n times; an exit during which
\* the Procedure suspends a second time leaves it parked at the second
\* suspension point, with no code after that point run.
C18_OneResumePerCall ==
    /\ \A i \in Calls : log[i].ran <= 1
    /\ resumes <= Len(log)
    /\ resumes = gen.pc
    /\ \A i \in Calls :
        (ExitInActive(i) /\ Cleanup.op = "yield") =>
            /\ log[i].ran = 1
            /\ log[i].post = "Broken"
            /\ i = Len(log) => (gen = [pc |-> 2, state |-> "suspended"] /\ resumes = 2)

C18_Witness ==
    /\ Len(log) = 2
    /\ ExitInActive(2) /\ Cleanup.op = "yield"
    /\ Len(proc) = 3
    /\ gen = [pc |-> 2, state |-> "suspended"]

\* C15: the contexts of chdir, umask, update_env and tempdir restore the
\* state they found when they close, on the normal path and when the block
\* raises: with no context open, the cwd, the umask, every environment key
\* (absent keys included) and the set of existing directories are those
\* from before the outermost entry; with contexts open and all inner ones
\* closed, the state is the one the innermost open block started with; and
\* the failure a block raised stays in flight until the caller catches it.
C15_GuardsRestore ==
    usage = "guards" =>
        /\ stack = <<>> => os = os0
        /\ stack # <<>> => os = stack[Len(stack)].inside
        /\ pending = raised

\* Two or more contexts were entered, a block raised F, every context has
\* closed on the way out and F has reached the caller.
C15_Witness ==
    /\ usage = "guards"
    /\ stack = <<>>
    /\ opens >= 2
    /\ pending \in Failures
    /\ os0.environ["A"] = "None"
    /\ os = os0

====
